---- MODULE Spec2Model ----
(***************************************************************************)
(* Model of anlyz.py: the folder scan (analyze_folder), the snapshot store *)
(* (write_stats_to_file / load_stats_file), the annotation pass            *)
(* (gpt_analyze, one step per file of the traversal) and the menu driven   *)
(* main script.  The file system, the operator's answers and the language  *)
(* model are the environment.                                              *)
(***************************************************************************)
EXTENDS Integers, Sequences, FiniteSets, TLC

\* ------------------------------------------------------------------ bounds
\* number of executions of the script
MaxRuns == 2
\* number of changes made to the files (modified, made unreadable, deleted)
MaxChanges == 1

\* time.ctime() keeps whole seconds of the float os.path.getmtime() returns
TicksPerSecond == 2

\* ------------------------------------------------------- the scanned tree
\* Paths are sequences of names; os.path.join appends a name.
Join(root, name) == Append(root, name)

FolderPath == <<"r">>

\* what os.walk lists in a directory (directories, files), before filtering
TreeDirs(d) == IF d = <<"r">> THEN <<"s">> ELSE <<>>

TreeFiles(d) ==
    IF d = <<"r">> THEN <<"a", "b">>
    ELSE IF d = <<"r", "s">> THEN <<"c">>
    ELSE <<>>

AllFiles == {<<"r", "a">>, <<"r", "b">>, <<"r", "s", "c">>}

FileSize(f) == IF f = <<"r", "a">> THEN 10 ELSE IF f = <<"r", "b">> THEN 5 ELSE 3

\* A glob pattern: a literal path, or a prefix followed by "*" (fnmatch's
\* "*" also matches the path separator).
Lit(p) == [pre |-> p, star |-> FALSE]
Glob(p) == [pre |-> p, star |-> TRUE]

PatternChoices ==
    { {}, {Lit(<<"r", "s", "c">>)}, {Glob(<<"r", "s">>)} }

IsPrefix(p, q) == Len(p) <= Len(q) /\ SubSeq(q, 1, Len(p)) = p

fnmatch(path, pattern) ==
    IF pattern.star THEN IsPrefix(pattern.pre, path) ELSE path = pattern.pre

should_ignore(path, pats) == \E pattern \in pats : fnmatch(path, pattern)

VARIABLES
    mtime,               \* file -> raw modification time
    status,              \* file -> "ok" | "unreadable" | "missing"
    patterns,            \* the ignore patterns in force (.repodocignore)
    interFile,           \* stats_intermediate.json: <<>> or <<snapshot>>
    finalFile,           \* stats_final.json: <<>> or <<snapshot>>
    pc,                  \* position of the main script
    choice,              \* the top-level menu choice of the current run
    stats,               \* the variable stats of the script: <<>> or <<snapshot>>
    pos,                 \* <<node index, file index>> of the pass
    flag_yesall,         \* gpt_analyze's flag_yesall
    last_modified_time,  \* gpt_analyze's last_modified_time (Unbound before the first assignment)
    invalidReported,     \* the run logged "Invalid choice"
    runs,                \* executions started so far
    changes,             \* changes made to the files so far
    ev,                  \* what the last per-file step of the pass did
    invocations,         \* llm.invoke calls of the current pass
    queries,             \* gate prompts of the current pass
    sinceStart,          \* a file changed since the current/last pass began
    finalClean,          \* stats_final.json was written by the pass that just completed, no file changed since it began
    idem,                \* how the current pass relates to the one before it
    user_input,          \* the answer to "Is the structure OK?" of the current run
    analysed             \* the files an annotation was ever appended for

vars == <<mtime, status, patterns, interFile, finalFile, pc, choice, stats, pos,
          flag_yesall, last_modified_time, invalidReported, runs, changes,
          ev, invocations, queries, sinceStart, finalClean, idem, user_input,
          analysed>>

fsVars == <<mtime, status, patterns, changes>>
passVars == <<pos, flag_yesall, last_modified_time, ev, invocations, queries>>

\* -------------------------------------------------------------- the scan
ListFiles(d) == SelectSeq(TreeFiles(d), LAMBDA n : status[Join(d, n)] # "missing")

filtered_dirs(root, pats) ==
    SelectSeq(TreeDirs(root), LAMBDA d : ~should_ignore(Join(root, d), pats))

filtered_files(root, pats) ==
    SelectSeq(ListFiles(root), LAMBDA f : ~should_ignore(Join(root, f), pats))

RECURSIVE JoinAll(_, _)
JoinAll(root, names) ==
    IF names = <<>> THEN <<>>
    ELSE <<Join(root, Head(names))>> \o JoinAll(root, Tail(names))

\* the directories os.walk visits, top-down, descending only into filtered_dirs
RECURSIVE WalkOrder(_, _)
WalkOrder(stack, pats) ==
    IF stack = <<>> THEN <<>>
    ELSE LET root == Head(stack)
         IN <<root>> \o WalkOrder(JoinAll(root, filtered_dirs(root, pats)) \o Tail(stack), pats)

Node(root, pats) ==
    [seq |-> "tuple", path |-> root, dirs |-> filtered_dirs(root, pats),
     files |-> filtered_files(root, pats), ann |-> <<>>, times |-> <<>>]

RECURSIVE SumSizes(_, _)
SumSizes(root, files) ==
    IF files = <<>> THEN 0
    ELSE FileSize(Join(root, Head(files))) + SumSizes(root, Tail(files))

RECURSIVE ScanFrom(_, _, _)
ScanFrom(walk, pats, acc) ==
    IF walk = <<>> THEN acc
    ELSE LET root == Head(walk)
             n == Node(root, pats)
         IN ScanFrom(Tail(walk), pats,
                [acc EXCEPT
                    !.structure = IF n.dirs # <<>> \/ n.files # <<>> THEN Append(@, n) ELSE @,
                    !.num_dirs = @ + Len(n.dirs),
                    !.num_files = @ + Len(n.files),
                    !.total_size = @ + SumSizes(root, n.files)])

analyze_folder(folder_path, pats) ==
    ScanFrom(WalkOrder(<<folder_path>>, pats), pats,
             [folder_name |-> folder_path[Len(folder_path)], num_files |-> 0, num_dirs |-> 0,
              total_size |-> 0, structure |-> <<>>])

\* json_dump writing every node without its last-seen times
json_dump_NoTimes(s) ==
    [s EXCEPT !.structure = [k \in DOMAIN s.structure |->
                                [s.structure[k] EXCEPT !.seq = "array", !.times = <<>>]]]

\* ------------------------------------------------------- the snapshot store
\* json.dump writes a tuple as a JSON array; json.load reads every array as a list
json_dump(s) ==
    [s EXCEPT !.structure = [k \in DOMAIN s.structure |-> [s.structure[k] EXCEPT !.seq = "array"]]]

json_load(doc) ==
    [doc EXCEPT !.structure = [k \in DOMAIN doc.structure |-> [doc.structure[k] EXCEPT !.seq = "list"]]]

\* the new content of the file
write_stats_to_file(s) == <<json_dump(s)>>

\* load_stats_file answering a missing file with an empty snapshot instead of None
load_stats_file_Default(file) ==
    IF file = <<>>
    THEN <<[folder_name |-> "", num_files |-> 0, num_dirs |-> 0, total_size |-> 0,
            structure |-> <<>>]>>
    ELSE <<json_load(file[1])>>

\* <<>> stands for None (no such file)
load_stats_file(file) == IF file = <<>> THEN <<>> ELSE <<json_load(file[1])>>

\* ------------------------------------------------------ the annotation pass
ctime(m) == m \div TicksPerSecond

Unbound == [t |-> -1, of |-> <<>>]

\* time.ctime(os.path.getmtime(file_path)); "of" remembers whose time it is
Stamp(f, mt) == [t |-> ctime(mt[f]), of |-> f]

\* an entry of analyses: the validated response for a file, or a sentinel string;
\* "of" remembers the file whose step appended it
Entry(val, f) == [val |-> val, of |-> f]

Sentinels == {"PARSE_ERROR", "FILE_READ_ERROR", "LLM_INVOCATION_ERROR"}

\* NotModified with the bound off by one: the last recorded slot is never compared
NotModified_OffByOne(index, modified_time, lmt) ==
    index < Len(modified_time) /\ lmt.t = modified_time[index].t

\* index < len(modified_time) and last_modified_time == modified_time[index]
\* (index counts from 1 here)
NotModified(index, modified_time, lmt) ==
    index <= Len(modified_time) /\ lmt.t = modified_time[index].t

Answers == {"y", "n", "a"}

\* Gate that consults the operator without looking at the staleness check
Gate_IgnoresStaleness(unchanged, flag, answer) ==
    IF flag THEN [choice |-> "yes", flag |-> flag, queried |-> FALSE]
    ELSE IF answer \in {"yesall", "a"} THEN [choice |-> "yes", flag |-> TRUE, queried |-> TRUE]
    ELSE [choice |-> answer, flag |-> flag, queried |-> TRUE]

\* Gate without the "elif flag_yesall" branch: the operator is asked again
Gate_AsksAgain(unchanged, flag, answer) ==
    IF unchanged THEN [choice |-> "no", flag |-> flag, queried |-> FALSE]
    ELSE IF answer \in {"yesall", "a"} THEN [choice |-> "yes", flag |-> TRUE, queried |-> TRUE]
    ELSE [choice |-> answer, flag |-> flag, queried |-> TRUE]

\* lines 186-195: the choice for a file, the flag afterwards, whether input() was called
Gate(unchanged, flag, answer) ==
    IF unchanged THEN [choice |-> "no", flag |-> flag, queried |-> FALSE]
    ELSE IF flag THEN [choice |-> "yes", flag |-> flag, queried |-> FALSE]
    ELSE IF answer \in {"yesall", "a"} THEN [choice |-> "yes", flag |-> TRUE, queried |-> TRUE]
    ELSE [choice |-> answer, flag |-> flag, queried |-> TRUE]

\* Record without the append to item[4]
Record_NoTime(structure, root, a, t) ==
    [k \in DOMAIN structure |->
        IF structure[k].path = root
        THEN [structure[k] EXCEPT !.ann = Append(@, a)]
        ELSE structure[k]]

\* Record assigning one-element lists instead of appending
Record_Overwrite(structure, root, a, t) ==
    [k \in DOMAIN structure |->
        IF structure[k].path = root
        THEN [structure[k] EXCEPT !.ann = <<a>>, !.times = <<t>>]
        ELSE structure[k]]

\* for item in structure: if item[0] == root: item[3].append(a); item[4].append(t)
Record(structure, root, a, t) ==
    [k \in DOMAIN structure |->
        IF structure[k].path = root
        THEN [structure[k] EXCEPT !.ann = Append(@, a), !.times = Append(@, t)]
        ELSE structure[k]]

\* the same loop when last_modified_time is still unbound: item[3].append(a)
\* succeeds on the first matching item, then item[4].append raises
RecordUnbound(structure, root, a) ==
    [k \in DOMAIN structure |->
        IF structure[k].path = root /\ \A j \in 1..(k - 1) : structure[j].path # root
        THEN [structure[k] EXCEPT !.ann = Append(@, a)]
        ELSE structure[k]]

\* the traversal: the next <<node, file>> at or after <<n, i>>, or <<Len + 1, 1>>
RECURSIVE Seek(_, _, _)
Seek(structure, n, i) ==
    IF n > Len(structure) THEN <<Len(structure) + 1, 1>>
    ELSE IF i <= Len(structure[n].files) THEN <<n, i>>
    ELSE Seek(structure, n + 1, 1)

AtEnd(structure, p) == p[1] > Len(structure)

NoEvent ==
    [file |-> <<>>, node |-> 0, index |-> 0, read |-> "none", unchanged |-> FALSE,
     queried |-> FALSE, answer |-> "none", choice |-> "none", invoked |-> FALSE,
     outcome |-> "none", aborted |-> FALSE]

\* --------------------------------------------------------------------- Init
Init ==
    /\ mtime = [f \in AllFiles |-> 0]
    /\ status = [f \in AllFiles |-> "ok"]
    /\ patterns \in PatternChoices
    /\ interFile = <<>>
    /\ finalFile = <<>>
    /\ pc = "idle"
    /\ choice = "none"
    /\ stats = <<>>
    /\ pos = <<1, 1>>
    /\ flag_yesall = FALSE
    /\ last_modified_time = Unbound
    /\ invalidReported = FALSE
    /\ runs = 0
    /\ changes = 0
    /\ ev = NoEvent
    /\ invocations = 0
    /\ queries = 0
    /\ sinceStart = FALSE
    /\ finalClean = FALSE
    /\ idem = "none"
    /\ user_input = "none"
    /\ analysed = {}

\* ------------------------------------------------------------ environment
\* a file is written: its modification time advances by d ticks
Touch(f, d) ==
    /\ pc \in {"idle", "pass"}
    /\ status[f] # "missing"
    /\ changes < MaxChanges
    /\ changes' = changes + 1
    /\ mtime' = [mtime EXCEPT ![f] = @ + d]
    /\ sinceStart' = (pc = "pass")
    /\ finalClean' = FALSE
    /\ UNCHANGED <<status, patterns, interFile, finalFile, pc, choice, stats,
                   passVars, invalidReported, runs, idem>>
    /\ UNCHANGED <<user_input, analysed>>

\* a file becomes unreadable (permissions, not UTF-8) or is deleted
Break(f, how) ==
    /\ pc \in {"idle", "pass"}
    /\ changes < MaxChanges
    /\ status[f] = "ok"
    /\ status' = [status EXCEPT ![f] = how]
    /\ changes' = changes + 1
    /\ sinceStart' = (pc = "pass")
    /\ finalClean' = FALSE
    /\ UNCHANGED <<mtime, patterns, interFile, finalFile, pc, choice, stats,
                   passVars, invalidReported, runs, idem>>
    /\ UNCHANGED <<user_input, analysed>>

\* ------------------------------------------------------------ main script
MenuChoices == {"new", "inter", "update", "final", "other"}

\* lines 281-292: the menu; the first block the choice enters
Menu(c) ==
    /\ pc = "idle"
    /\ runs < MaxRuns
    /\ runs' = runs + 1
    /\ choice' = c
    /\ pc' = CASE c \in {"new", "n"} -> "new"
             [] c \in {"inter", "i"} -> "inter"
             [] c \in {"update", "u"} -> "update"
             [] OTHER -> "show"
    /\ UNCHANGED <<fsVars, interFile, finalFile, stats, passVars, invalidReported,
                   sinceStart, finalClean, idem>>
    /\ UNCHANGED <<user_input, analysed>>

\* lines 294-308: scan, show, and write the intermediate file if accepted
NewScan(typed) ==
    /\ pc = "new"
    /\ LET scanned == analyze_folder(FolderPath, patterns)
       IN /\ stats' = <<scanned>>
          /\ interFile' = IF typed \in {"yes", "y"}
                          THEN write_stats_to_file(scanned)
                          ELSE interFile
    /\ pc' = "inter"
    /\ user_input' = typed
    /\ UNCHANGED <<fsVars, finalFile, choice, passVars, invalidReported, runs,
                   sinceStart, finalClean, idem>>
    /\ UNCHANGED analysed

\* gpt_analyze lines 162-176: the pass begins on the loaded structure
BeginPass(loaded, relation) ==
    /\ stats' = loaded
    /\ pc' = "pass"
    /\ pos' = Seek(loaded[1].structure, 1, 1)
    /\ flag_yesall' = FALSE
    /\ last_modified_time' = Unbound
    /\ ev' = NoEvent
    /\ invocations' = 0
    /\ queries' = 0
    /\ sinceStart' = FALSE
    /\ finalClean' = FALSE
    /\ idem' = relation

\* every file of every node has a slot whose recorded time is the file's current one
AllCurrent(structure) ==
    \A k \in DOMAIN structure : \A i \in DOMAIN structure[k].files :
        LET f == Join(structure[k].path, structure[k].files[i])
        IN /\ status[f] # "missing"
           /\ i <= Len(structure[k].times)
           /\ structure[k].times[i].t = ctime(mtime[f])

\* lines 310-316: load the intermediate file and start the pass on it
LoadInter ==
    /\ pc = "inter"
    /\ LET loaded == load_stats_file(interFile)
       IN IF loaded # <<>>
          THEN BeginPass(loaded, "none")
          ELSE /\ stats' = loaded
               /\ pc' = "show"
               /\ UNCHANGED <<passVars, sinceStart, finalClean, idem>>
    /\ UNCHANGED <<fsVars, interFile, finalFile, choice, invalidReported, runs>>
    /\ UNCHANGED <<user_input, analysed>>

\* LoadUpdate reading the intermediate file, as the block it was copied from does
LoadUpdate_FromInter ==
    /\ pc = "update"
    /\ LET loaded == load_stats_file(interFile)
       IN IF loaded # <<>>
          THEN BeginPass(loaded, "none")
          ELSE /\ stats' = loaded
               /\ pc' = "show"
               /\ UNCHANGED <<passVars, sinceStart, finalClean, idem>>
    /\ UNCHANGED <<fsVars, interFile, finalFile, choice, invalidReported, runs>>
    /\ UNCHANGED <<user_input, analysed>>

\* lines 319-325: load the final file and start the pass on it
LoadUpdate ==
    /\ pc = "update"
    /\ LET loaded == load_stats_file(finalFile)
       IN IF loaded # <<>>
          THEN BeginPass(loaded,
                         IF ~finalClean THEN "none"
                         ELSE IF AllCurrent(loaded[1].structure) THEN "current"
                         ELSE "after")
          ELSE /\ stats' = loaded
               /\ pc' = "show"
               /\ UNCHANGED <<passVars, sinceStart, finalClean, idem>>
    /\ UNCHANGED <<fsVars, interFile, finalFile, choice, invalidReported, runs>>
    /\ UNCHANGED <<user_input, analysed>>

Outcomes == {"ok", "invalid", "raise"}

\* lines 231-264: llm.invoke and what is recorded for its outcome.  "ok": a response
\* that FileContent.model_validate accepts; "invalid": model_validate raises
\* ValidationError; "raise": llm.invoke raises.  Both exceptions are caught by
\* "except Exception" at line 258, which records and re-raises into line 266.
Invoke(structure, root, f, lmt, outcome) ==
    IF outcome = "ok"
    THEN [structure |-> Record(structure, root, Entry("RESULT", f), lmt), raised |-> FALSE]
    ELSE [structure |-> Record(Record(structure, root, Entry("LLM_INVOCATION_ERROR", f), lmt),
                               root, Entry("FILE_READ_ERROR", f), lmt),
          raised |-> TRUE]

\* lines 266-272 reached from lines 181-184 (getmtime, open or read raised)
ReadFailed(structure, root, f, lmt) ==
    IF lmt = Unbound
    THEN RecordUnbound(structure, root, Entry("FILE_READ_ERROR", f))
    ELSE Record(structure, root, Entry("FILE_READ_ERROR", f), lmt)

\* lines 177-272: one iteration of the loops, for the file at pos
AnalyzeFile(answer, outcome) ==
    /\ pc = "pass"
    /\ ~AtEnd(stats[1].structure, pos)
    /\ LET structure == stats[1].structure
           n == pos[1]
           index == pos[2]
           item == structure[n]
           root == item.path
           file_path == Join(root, item.files[index])
           here == [NoEvent EXCEPT !.file = file_path, !.node = n, !.index = index]
       IN /\ IF status[file_path] = "missing"
             THEN \* os.path.getmtime raises: last_modified_time keeps its old value
                  /\ stats' = <<[stats[1] EXCEPT !.structure =
                                   ReadFailed(structure, root, file_path, last_modified_time)]>>
                  /\ ev' = [here EXCEPT !.read = "nomtime", !.aborted = TRUE]
                  /\ pc' = "crashed"
                  /\ UNCHANGED <<pos, flag_yesall, last_modified_time, invocations, queries>>
             ELSE LET lmt == Stamp(file_path, mtime)
                  IN IF status[file_path] = "unreadable"
                     THEN \* open or f.read raises
                          /\ stats' = <<[stats[1] EXCEPT !.structure =
                                           ReadFailed(structure, root, file_path, lmt)]>>
                          /\ last_modified_time' = lmt
                          /\ ev' = [here EXCEPT !.read = "noread", !.aborted = TRUE]
                          /\ pc' = "crashed"
                          /\ UNCHANGED <<pos, flag_yesall, invocations, queries>>
                     ELSE LET unchanged == NotModified(index, item.times, lmt)
                              g == Gate(unchanged, flag_yesall, answer)
                              decided == [here EXCEPT !.read = "ok", !.unchanged = unchanged,
                                                      !.queried = g.queried,
                                                      !.answer = IF g.queried THEN answer ELSE "none",
                                                      !.choice = g.choice]
                          IN /\ last_modified_time' = lmt
                             /\ flag_yesall' = g.flag
                             /\ queries' = IF g.queried THEN queries + 1 ELSE queries
                             /\ IF g.choice \in {"yes", "y"}
                                THEN LET r == Invoke(structure, root, file_path, lmt, outcome)
                                     IN /\ stats' = <<[stats[1] EXCEPT !.structure = r.structure]>>
                                        /\ invocations' = invocations + 1
                                        /\ ev' = [decided EXCEPT !.invoked = TRUE, !.outcome = outcome,
                                                                 !.aborted = r.raised]
                                        /\ IF r.raised
                                           THEN pc' = "crashed" /\ pos' = pos
                                           ELSE /\ pos' = Seek(r.structure, n, index + 1)
                                                /\ UNCHANGED pc
                                ELSE /\ ev' = decided
                                     /\ pos' = Seek(structure, n, index + 1)
                                     /\ UNCHANGED <<stats, invocations, pc>>
          /\ analysed' = IF stats' # stats THEN analysed \cup {file_path} ELSE analysed
    /\ UNCHANGED <<fsVars, interFile, finalFile, choice, invalidReported, runs,
                   sinceStart, finalClean, idem>>
    /\ UNCHANGED user_input

\* lines 274-278 and 317 / 326: the pass returns and the final file is written
PassReturn ==
    /\ pc = "pass"
    /\ AtEnd(stats[1].structure, pos)
    /\ finalFile' = write_stats_to_file(stats[1])
    /\ pc' = "show"
    /\ finalClean' = ~sinceStart
    /\ pos' = <<1, 1>>
    /\ flag_yesall' = FALSE
    /\ last_modified_time' = Unbound
    /\ ev' = NoEvent
    /\ invocations' = 0
    /\ queries' = 0
    /\ idem' = "none"
    /\ sinceStart' = FALSE
    /\ UNCHANGED <<fsVars, interFile, choice, stats, invalidReported, runs>>
    /\ UNCHANGED <<user_input, analysed>>

\* Show whose list of valid choices lacks the one-letter forms
Show_LongFormsOnly(user_check) ==
    /\ pc = "show"
    /\ IF choice \in {"new", "inter", "final", "update"}
       THEN /\ stats' = load_stats_file(finalFile)
            /\ UNCHANGED invalidReported
       ELSE /\ invalidReported' = TRUE
            /\ UNCHANGED stats
    /\ pc' = "done"
    /\ UNCHANGED <<fsVars, interFile, finalFile, choice, passVars, runs,
                   sinceStart, finalClean, idem>>
    /\ UNCHANGED <<user_input, analysed>>

\* lines 328-337: reload the final file for review, or report the invalid choice
Show(user_check) ==
    /\ pc = "show"
    /\ IF choice \in {"new", "n", "inter", "i", "final", "f", "update", "u"}
       THEN /\ stats' = load_stats_file(finalFile)
            /\ UNCHANGED invalidReported
       ELSE /\ invalidReported' = TRUE
            /\ UNCHANGED stats
    /\ pc' = "done"
    /\ UNCHANGED <<fsVars, interFile, finalFile, choice, passVars, runs,
                   sinceStart, finalClean, idem>>
    /\ UNCHANGED <<user_input, analysed>>

\* the process ends, normally or by the exception that left gpt_analyze; its
\* variables are gone, the two files stay
Exit ==
    /\ pc \in {"done", "crashed"}
    /\ pc' = "idle"
    /\ choice' = "none"
    /\ stats' = <<>>
    /\ pos' = <<1, 1>>
    /\ flag_yesall' = FALSE
    /\ last_modified_time' = Unbound
    /\ ev' = NoEvent
    /\ invocations' = 0
    /\ queries' = 0
    /\ invalidReported' = FALSE
    /\ sinceStart' = FALSE
    /\ idem' = "none"
    /\ UNCHANGED <<fsVars, interFile, finalFile, runs, finalClean>>
    /\ user_input' = "none"
    /\ UNCHANGED analysed

Next ==
    \/ \E f \in AllFiles : \E d \in 1..TicksPerSecond : Touch(f, d)
    \/ \E f \in AllFiles : \E how \in {"unreadable", "missing"} : Break(f, how)
    \/ \E c \in MenuChoices : Menu(c)
    \/ \E typed \in {"y", "n"} : NewScan(typed)
    \/ LoadInter
    \/ LoadUpdate
    \/ \E answer \in Answers : \E outcome \in Outcomes : AnalyzeFile(answer, outcome)
    \/ PassReturn
    \/ \E user_check \in {"y", "n"} : Show(user_check)
    \/ Exit

Spec == Init /\ [][Next]_vars

\* the script run on a tree that nobody changes, with every spelling of the menu
\* input: the four actions, their one-letter forms, and anything else
MenuInputs == MenuChoices \cup {"n", "i", "u", "f"}

NextMenu ==
    \/ \E c \in MenuInputs : Menu(c)
    \/ \E typed \in {"y", "n"} : NewScan(typed)
    \/ LoadInter
    \/ LoadUpdate
    \/ \E answer \in Answers : \E outcome \in Outcomes : AnalyzeFile(answer, outcome)
    \/ PassReturn
    \/ \E user_check \in {"y", "n"} : Show(user_check)
    \/ Exit

MenuSpec == Init /\ [][NextMenu]_vars

\* ------------------------------------------------------------ observations
Last(q) == q[Len(q)]

\* the snapshots a load of the two files returns
LoadedDocs ==
    {load_stats_file(file)[1] : file \in {x \in {interFile, finalFile} : x # <<>>}}

\* every structure there is: in the script's variable stats and in the two files
AllStructures ==
    {d.structure : d \in LoadedDocs} \cup (IF stats = <<>> THEN {} ELSE {stats[1].structure})

\* the node and the file the pass is at
CurNode == stats[1].structure[pos[1]]
CurFile == Join(CurNode.path, CurNode.files[pos[2]])

\* this step is an iteration of the loops of gpt_analyze; ev' describes it
StepTaken ==
    /\ pc = "pass"
    /\ ~AtEnd(stats[1].structure, pos)
    /\ (pos' # pos \/ pc' = "crashed")

\* the structures that completed passes leave: what gpt_analyze returns and what
\* the two files hold
PassResults ==
    {d.structure : d \in LoadedDocs}
        \cup (IF pc = "pass" /\ AtEnd(stats[1].structure, pos) THEN {stats[1].structure} ELSE {})

\* C1: in every structure a sequence of passes leaves, annotations[i] and
\* lastSeenModifiedTimes[i] were recorded for files[i], the file at the same
\* position of the same node, and not for another file.
C1_Positional ==
    \A st \in PassResults : \A k \in DOMAIN st :
        /\ \A i \in DOMAIN st[k].ann :
              /\ i <= Len(st[k].files)
              /\ st[k].ann[i].of = Join(st[k].path, st[k].files[i])
        /\ \A i \in DOMAIN st[k].times :
              /\ i <= Len(st[k].files)
              /\ st[k].times[i].of = Join(st[k].path, st[k].files[i])

\* C2: when the file at position i has a slot whose recorded time differs from
\* its current time and the gate allows the analysis, the step invokes the model
\* and puts the new result and the new time into slot i; both sequences keep
\* their lengths.
C2_StaleSlotReplaced ==
    [][(/\ StepTaken
        /\ pos[2] <= Len(CurNode.times)
        /\ CurNode.ann[pos[2]].of = CurFile
        /\ CurNode.times[pos[2]].of = CurFile
        /\ ev'.read = "ok"
        /\ CurNode.times[pos[2]].t # ctime(mtime[CurFile])
        /\ ev'.choice \in {"yes", "y"}
        /\ ev'.outcome \in {"none", "ok"})
       => LET after == stats'[1].structure[pos[1]]
          IN /\ ev'.invoked
             /\ Len(after.ann) = Len(CurNode.ann)
             /\ Len(after.times) = Len(CurNode.times)
             /\ after.ann[pos[2]] = Entry("RESULT", CurFile)
             /\ after.times[pos[2]] = Stamp(CurFile, mtime)]_vars

\* C3 as stated: a pass that follows a completed pass, with no file changed since
\* that pass began, invokes the model for no file.
C3_Idempotent ==
    (pc \in {"pass", "crashed"} /\ idem # "none" /\ ~sinceStart) => invocations = 0

\* C3 as amended: when moreover every file has a slot whose recorded time is the
\* file's current modified time, the second pass invokes the model for no file
\* and asks the gate about no file.
C3_IdempotentWhenCurrent ==
    (pc \in {"pass", "crashed"} /\ idem = "current" /\ ~sinceStart)
        => (invocations = 0 /\ queries = 0)

C3_Witness ==
    /\ pc = "pass"
    /\ idem = "current"
    /\ ~sinceStart
    /\ AtEnd(stats[1].structure, pos)
    /\ ev.read = "ok"
    /\ ev.unchanged
    /\ \E k \in DOMAIN stats[1].structure : Len(stats[1].structure[k].files) >= 2

\* C4: when llm.invoke raises for a file, the node's annotations grow by exactly
\* one entry, the last entry is LLM_INVOCATION_ERROR paired with the file's
\* current time, and the pass ends there.
C4_InvocationErrorOnce ==
    [][(StepTaken /\ ev'.invoked /\ ev'.outcome = "raise")
       => LET after == stats'[1].structure[pos[1]]
          IN /\ Len(after.ann) = Len(CurNode.ann) + 1
             /\ Last(after.ann) = Entry("LLM_INVOCATION_ERROR", CurFile)
             /\ Len(after.times) = Len(CurNode.times) + 1
             /\ Last(after.times) = Stamp(CurFile, mtime)
             /\ pc' = "crashed"]_vars

\* C5: when FileContent.model_validate rejects the response, PARSE_ERROR and the
\* file's current time are appended and the pass goes on with the next file.
C5_ParseErrorContinues ==
    [][(StepTaken /\ ev'.invoked /\ ev'.outcome = "invalid")
       => LET after == stats'[1].structure[pos[1]]
          IN /\ after.ann = Append(CurNode.ann, Entry("PARSE_ERROR", CurFile))
             /\ after.times = Append(CurNode.times, Stamp(CurFile, mtime))
             /\ pc' = "pass"
             /\ pos' = Seek(stats'[1].structure, pos[1], pos[2] + 1)]_vars

\* C6: when a run that made a pass has ended, also by an escalated failure, every
\* entry the pass holds in memory (sentinels and results) is in the final file.
C6_SentinelsPersisted ==
    (pc \in {"done", "crashed"} /\ stats # <<>>)
        => /\ finalFile # <<>>
           /\ LET mem == stats[1].structure
                  disk == load_stats_file(finalFile)[1].structure
              IN \A k \in DOMAIN mem :
                    /\ k \in DOMAIN disk
                    /\ disk[k].path = mem[k].path
                    /\ \A i \in DOMAIN mem[k].ann :
                          i <= Len(disk[k].ann) /\ disk[k].ann[i] = mem[k].ann[i]

\* the final file keeps every annotation it holds, at its slot, for the same file
FinalKeepsAnnotations ==
    finalFile # <<>> =>
        /\ finalFile' # <<>>
        /\ LET old == finalFile[1].structure
               new == finalFile'[1].structure
           IN \A k \in DOMAIN old : \A i \in DOMAIN old[k].ann :
                 /\ k \in DOMAIN new
                 /\ new[k].path = old[k].path
                 /\ new[k].files = old[k].files
                 /\ i <= Len(new[k].ann)
                 /\ new[k].ann[i] = old[k].ann[i]

\* C7 as stated: in runs of the actions inter, update and final, with no file
\* changed at all, an annotation that the final file holds stays in it.
C7_NeverLost ==
    [][(choice \in {"inter", "i", "update", "u", "final", "f"} /\ changes = 0)
         => FinalKeepsAnnotations]_vars

\* C7 as amended: in runs of the actions update and final an annotation that the
\* final file holds stays in it (whether or not files change).
C7_NeverLostByUpdate ==
    [][(choice \in {"update", "u", "final", "f"}) => FinalKeepsAnnotations]_vars

\* an update run has rewritten the final file after re-analysing a modified file
C7_Witness ==
    /\ choice = "update"
    /\ pc = "show"
    /\ finalFile # <<>>
    /\ stats # <<>>
    /\ finalFile = write_stats_to_file(stats[1])
    /\ \E k \in DOMAIN finalFile[1].structure :
          /\ Len(finalFile[1].structure[k].files) = 1
          /\ Len(finalFile[1].structure[k].ann) = 2

\* C8: in every snapshot loaded from a file, the two sequences of every node
\* have the same length.
C8_ParallelLengths ==
    \A d \in LoadedDocs : \A k \in DOMAIN d.structure :
        Len(d.structure[k].times) = Len(d.structure[k].ann)

\* a pass has ended in an error with sequences of different lengths in memory,
\* while the final file holds annotations of an earlier pass
C8_Witness ==
    /\ pc = "crashed"
    /\ \E k \in DOMAIN stats[1].structure :
          Len(stats[1].structure[k].ann) # Len(stats[1].structure[k].times)
    /\ finalFile # <<>>
    /\ \E k \in DOMAIN finalFile[1].structure : finalFile[1].structure[k].ann # <<>>

\* C9: in every structure, in memory and in the files, no node has more
\* annotations than files.
C9_AnnotationsWithinFiles ==
    \A st \in AllStructures : \A k \in DOMAIN st : Len(st[k].ann) <= Len(st[k].files)

\* C10: in every iteration made with flag_yesall set, the gate is not asked,
\* the flag stays set, and a file that reaches the decision and is not skipped
\* as unmodified is handed to the model; the flag is not cleared between
\* iterations either.
C10_StickyYesAll ==
    [][(pc = "pass" /\ flag_yesall) =>
          /\ pc' \in {"pass", "crashed"} => flag_yesall'
          /\ queries' = queries \/ pc' \notin {"pass", "crashed"}
          /\ StepTaken =>
                /\ ~ev'.queried
                /\ (ev'.read = "ok" /\ ~ev'.unchanged)
                      => (ev'.invoked /\ invocations' = invocations + 1)]_vars

\* after yes-all, a later file was analysed without a prompt
C10_Witness ==
    /\ pc = "pass"
    /\ flag_yesall
    /\ queries = 1
    /\ invocations = 2
    /\ ev.invoked
    /\ ~ev.queried
    /\ ev.choice = "yes"

\* ------------------------------------------------------------------- C11
\* the file the pass is at has a slot whose recorded time is its current one
SlotCurrent ==
    /\ pos[2] <= Len(CurNode.times)
    /\ CurNode.times[pos[2]].t = ctime(mtime[CurFile])

\* C11: an iteration that skips its file - the file has a slot with its current
\* modified time, or the operator's answer at the gate is not yes - invokes no
\* model and leaves every annotation and recorded time as it was; the skip by
\* staleness asks the operator nothing.
C11_SkipLeavesSlots ==
    [][(StepTaken /\ status[CurFile] = "ok")
         => /\ SlotCurrent =>
                 /\ stats' = stats
                 /\ invocations' = invocations
                 /\ queries' = queries
                 /\ ~ev'.queried /\ ~ev'.invoked
                 /\ pc' = "pass"
            /\ (ev'.queried /\ ev'.answer \notin {"yes", "y", "yesall", "a"}) =>
                 /\ stats' = stats
                 /\ invocations' = invocations
                 /\ ~ev'.invoked
                 /\ pc' = "pass"]_vars

\* a file with an annotation and a current slot has just been skipped unasked
C11_Witness ==
    /\ pc = "pass"
    /\ ev.read = "ok" /\ ev.unchanged /\ ~ev.queried /\ ~ev.invoked
    /\ Len(stats[1].structure[ev.node].ann) >= ev.index
    /\ stats[1].structure[ev.node].times[ev.index].of = ev.file

\* ------------------------------------------------------------------- C12
\* C12: a file no annotation was ever appended for is not skipped by the
\* staleness check; the model is invoked for it exactly when the gate allows it
\* (yes-all in force, or the operator's answer is yes or yes-all).
C12_FreshNeverStale ==
    [][(StepTaken /\ status[CurFile] = "ok" /\ CurFile \notin analysed)
         => /\ ~ev'.unchanged
            /\ ev'.invoked <=> (flag_yesall \/ ev'.answer \in {"yes", "y", "yesall", "a"})]_vars

\* ------------------------------------------------------------------- C13
\* C13: when getmtime, open or read fails for a file, the iteration appends
\* exactly one FILE_READ_ERROR to the node's annotations and that file's own
\* modified time to the node's recorded times, changes nothing else, and the
\* pass ends there by the exception.
C13_ReadErrorRecorded ==
    [][(StepTaken /\ status[CurFile] # "ok")
         => LET n == pos[1]
                old == stats[1].structure
                new == stats'[1].structure
            IN /\ new[n].ann = Append(old[n].ann, Entry("FILE_READ_ERROR", CurFile))
               /\ Len(new[n].times) = Len(old[n].times) + 1
               /\ Last(new[n].times).of = CurFile
               /\ \A k \in DOMAIN old : k # n => new[k] = old[k]
               /\ pc' = "crashed"]_vars

\* ------------------------------------------------------------------- C14
\* the file the current run's action loads first does not exist
NotFound ==
    \/ choice \in {"inter", "i"} /\ interFile = <<>>
    \/ choice \in {"update", "u", "final", "f"} /\ finalFile = <<>>

\* C14: in a run of inter, update or final whose snapshot file does not exist,
\* the load returns nothing, no pass begins (so the model is never invoked),
\* neither snapshot file is written, and the run goes on to its normal end.
C14_NotFoundNoCrash ==
    [][NotFound
         => /\ interFile' = interFile
            /\ finalFile' = finalFile
            /\ invocations' = 0
            /\ pc' \notin {"pass", "crashed"}
            /\ pc \in {"inter", "update"} => (stats' = <<>> /\ pc' = "show")
            /\ pc = "show" => pc' = "done"
            /\ (pc = "show" /\ finalFile = <<>>) => stats' = <<>>]_vars

\* an update run has ended normally without a final file, though an
\* intermediate file exists
C14_Witness ==
    /\ pc = "done"
    /\ choice = "update"
    /\ finalFile = <<>>
    /\ interFile # <<>>
    /\ stats = <<>>

\* ------------------------------------------------------------------- C15
\* the menu inputs the script recognises
Recognised == {"new", "n", "inter", "i", "update", "u", "final", "f"}

\* C15: a run whose menu input is not a recognised one scans nothing, loads
\* nothing, starts no pass, writes neither file, and has reported the invalid
\* choice when it ends; a run whose input is recognised never reports it.
C15_InvalidChoice ==
    [][((choice' \notin Recognised \cup {"none"})
           => /\ stats' = <<>>
              /\ interFile' = interFile
              /\ finalFile' = finalFile
              /\ invocations' = 0
              /\ pc' \in {"show", "done"}
              /\ pc' = "done" => invalidReported')
        /\ ((choice' \in Recognised) => ~invalidReported')]_vars

\* a run with an unrecognised input has ended: it reported the choice and did
\* not load the final file an earlier run left
C15_Witness ==
    /\ pc = "done"
    /\ choice = "other"
    /\ invalidReported
    /\ finalFile # <<>>
    /\ stats = <<>>

\* ------------------------------------------------------------------- C16
\* the directories the scan visits
Walked == {WalkOrder(<<FolderPath>>, patterns)[k] : k \in DOMAIN WalkOrder(<<FolderPath>>, patterns)}

\* directory d has entries and every one of them matches an ignore pattern
OnlyIgnored(d) ==
    /\ ListFiles(d) # <<>> \/ TreeDirs(d) # <<>>
    /\ filtered_files(d, patterns) = <<>>
    /\ filtered_dirs(d, patterns) = <<>>

\* the snapshot NewScan has just produced
JustScanned == pc = "inter" /\ user_input # "none"

\* C16: in a fresh scan a directory whose entries all match an ignore pattern
\* is not a node of the structure and is not counted: num_dirs counts the
\* visited subdirectories other than such directories, and num_files and
\* total_size are those of the nodes.
C16_IgnoredDirNotCounted ==
    JustScanned =>
        LET scan == stats[1]
            nodes == scan.structure
        IN /\ \A d \in Walked : OnlyIgnored(d) => \A k \in DOMAIN nodes : nodes[k].path # d
           /\ scan.num_dirs = Cardinality({d \in Walked \ {FolderPath} : ~OnlyIgnored(d)})
           /\ scan.num_files = Cardinality({f \in AllFiles :
                                    \E k \in DOMAIN nodes : \E i \in DOMAIN nodes[k].files :
                                        f = Join(nodes[k].path, nodes[k].files[i])})

\* ------------------------------------------------------------------- C17
\* two nodes with the same path, subdirectories, files, annotations and times
SameNode(x, y) ==
    /\ x.path = y.path
    /\ x.dirs = y.dirs
    /\ x.files = y.files
    /\ x.ann = y.ann
    /\ x.times = y.times

\* two snapshots with the same folder name, counts and sequence of nodes
SameSnapshot(x, y) ==
    /\ x.folder_name = y.folder_name
    /\ x.num_files = y.num_files
    /\ x.num_dirs = y.num_dirs
    /\ x.total_size = y.total_size
    /\ Len(x.structure) = Len(y.structure)
    /\ \A k \in DOMAIN x.structure : SameNode(x.structure[k], y.structure[k])

C18_ReadAfterDecision ==
    [][(/\ StepTaken
        /\ status[CurFile] = "unreadable"
        /\ SlotCurrent
        /\ CurNode.times[pos[2]].of = CurFile)
         => (stats' = stats /\ pc' = "pass")]_vars

\* ------------------------------------------------------------------- C19
\* C19: in a run of new whose scan the operator did not accept, the
\* intermediate file is not written, no pass begins, the model is not invoked
\* and the final file is not written, whatever the two files held before.
C19_RejectedScanStops ==
    [][(choice \in {"new", "n"} /\ user_input' \notin {"none", "yes", "y"})
         => /\ interFile' = interFile
            /\ finalFile' = finalFile
            /\ invocations' = 0
            /\ pc' # "pass"]_vars

\* ------------------------------------------------------------------- C20
\* snapshot new is snapshot old with entries appended to annotations and times
AppendOnly(old, new) ==
    /\ new.folder_name = old.folder_name
    /\ new.num_files = old.num_files
    /\ new.num_dirs = old.num_dirs
    /\ new.total_size = old.total_size
    /\ Len(new.structure) = Len(old.structure)
    /\ \A k \in DOMAIN old.structure :
          /\ new.structure[k].path = old.structure[k].path
          /\ new.structure[k].dirs = old.structure[k].dirs
          /\ new.structure[k].files = old.structure[k].files
          /\ IsPrefix(old.structure[k].ann, new.structure[k].ann)
          /\ IsPrefix(old.structure[k].times, new.structure[k].times)

\* C20: every step taken while a pass is running - an iteration that skips,
\* analyses or fails, and the return - leaves the snapshot as it was except for
\* entries appended at the end of a node's annotations and times.
C20_AppendOnly ==
    [][(pc = "pass") => (stats' # <<>> /\ AppendOnly(stats[1], stats'[1]))]_vars

\* a pass has failed on a node that already held a result: the sentinels
\* follow the result, which is still in place
C20_Witness ==
    /\ pc = "crashed"
    /\ \E k \in DOMAIN stats[1].structure :
          LET ann == stats[1].structure[k].ann
          IN /\ Len(ann) >= 2
             /\ ann[1].val = "RESULT"
             /\ Last(ann).val \in Sentinels

====
